---- MODULE Spec2Model ----
(***************************************************************************)
(* Model of the portfolio backend in src/main.py: five HTTP routes         *)
(* (/, /api/metrics, /api/case-studies, /api/contact, /test) over a static *)
(* case-study list, the process environment and the external database      *)
(* collaborator (modules database and schemas).                            *)
(*                                                                         *)
(* A Python str is a sequence of one-character strings, so that            *)
(* str.lower() and the slice [:n] are computed, not assumed.  An Optional  *)
(* value is <<>> for None and <<v>> for a present v.  The emoji that       *)
(* prefix the status strings of /test are left out of the texts.           *)
(***************************************************************************)
EXTENDS Integers, Sequences, FiniteSets, TLC

VARIABLES
    environ,        \* os.environ: DATABASE_URL and DATABASE_NAME
    CASE_STUDIES,   \* the module-level list of main.py
    pc,             \* "idle" | "received" | "handled": the request in flight
    request,        \* the request being served
    response,       \* what the route answered
    calls,          \* the collaborator calls made while serving the request
    validated,      \* submit_contact requests that passed ContactIn
    createCalls     \* create_document calls issued since the process started

vars == <<environ, CASE_STUDIES, pc, request, response, calls, validated, createCalls>>

-----------------------------------------------------------------------------
(* Bounds of the model *)

MaxSubmits == 2
MaxEmailLen == 5
MaxMsgLen == 52
MaxCollections == 12

\* collections[:10] and str(e)[:50] of test_database
CollectionsShown == 10
ErrorTextLen == 50

-----------------------------------------------------------------------------
(* Python values *)

None == <<>>
Some(v) == <<v>>

\* Python truthiness of an Optional[str]: None and "" are falsy
Truthy(o) == o # None /\ Len(o[1]) > 0

UpperLetters == <<"A","B","C","D","E","F","G","H","I","J","K","L","M",
                  "N","O","P","Q","R","S","T","U","V","W","X","Y","Z">>
LowerLetters == <<"a","b","c","d","e","f","g","h","i","j","k","l","m",
                  "n","o","p","q","r","s","t","u","v","w","x","y","z">>

IsUpper(c) == \E i \in 1..Len(UpperLetters) : UpperLetters[i] = c
IsLowerLetter(c) == \E i \in 1..Len(LowerLetters) : LowerLetters[i] = c

LowerChar(c) ==
    IF IsUpper(c)
    THEN LowerLetters[CHOOSE i \in 1..Len(UpperLetters) : UpperLetters[i] = c]
    ELSE c

UpperChar(c) ==
    IF IsLowerLetter(c)
    THEN UpperLetters[CHOOSE i \in 1..Len(LowerLetters) : LowerLetters[i] = c]
    ELSE c

\* str.lower()
lower(s) == [i \in 1..Len(s) |-> LowerChar(s[i])]

\* s[:n]
Take(s, n) == SubSeq(s, 1, IF Len(s) < n THEN Len(s) ELSE n)

upper(s) == [i \in 1..Len(s) |-> UpperChar(s[i])]

-----------------------------------------------------------------------------
(* Static data *)

ECommerce == <<"E","-","c","o","m","m","e","r","c","e">>
LeadGen == <<"L","e","a","d"," ","G","e","n">>
LocalBusiness == <<"L","o","c","a","l"," ","B","u","s","i","n","e","s","s">>
All == <<"A","l","l">>

\* the Literal of CaseStudy.category
Categories == {ECommerce, LeadGen, LocalBusiness, All}

NoBudget == "None"

CaseStudiesData ==
    << [title |-> "Soorpriz", category |-> ECommerce,
        metric_label |-> "Best ROAS", metric_value |-> "3.6x",
        budget |-> "$5.5K",
        summary |-> "Scaled ROAS while testing creatives and audience stacks"],
       [title |-> "Dobrosvit", category |-> LeadGen,
        metric_label |-> "Cost per Lead", metric_value |-> "EUR7",
        budget |-> NoBudget,
        summary |-> "Generated 70 qualified leads via conversion-optimized funnels"],
       [title |-> "Fertility Therapy", category |-> LeadGen,
        metric_label |-> "CPL", metric_value |-> "EUR18.75",
        budget |-> NoBudget,
        summary |-> "Delivered 8 booked calls through targeted lead gen campaigns"] >>

\* cs.model_dump(): a fresh dict of the six fields
model_dump(cs) ==
    [title |-> cs.title, category |-> cs.category,
     metric_label |-> cs.metric_label, metric_value |-> cs.metric_value,
     budget |-> cs.budget, summary |-> cs.summary]

read_root == [message |-> "Portfolio Backend Running"]

\* best_roas is 3.6, kept in tenths
\* get_metrics counting the contact messages received
get_metrics_counting ==
    [experience_years |-> 2,
     production_apps |-> 3 + createCalls,
     ad_spend_managed |-> 6000,
     best_roas_tenths |-> 36,
     projects |-> << [name |-> "SkyVoyage", type |-> "IT"],
                     [name |-> "Detiabc.ru", type |-> "IT"],
                     [name |-> "Soorpriz", type |-> "Marketing"],
                     [name |-> "Dobrosvit", type |-> "Marketing"] >>]

get_metrics ==
    [experience_years |-> 2,
     production_apps |-> 3,
     ad_spend_managed |-> 6000,
     best_roas_tenths |-> 36,
     projects |-> << [name |-> "SkyVoyage", type |-> "IT"],
                     [name |-> "Detiabc.ru", type |-> "IT"],
                     [name |-> "Soorpriz", type |-> "Marketing"],
                     [name |-> "Dobrosvit", type |-> "Marketing"] >>]

\* list_case_studies comparing the stored category as written
list_case_studies_stored_case(category) ==
    IF ~Truthy(category) \/ lower(category[1]) = <<"a","l","l">>
    THEN [i \in 1..Len(CASE_STUDIES) |-> model_dump(CASE_STUDIES[i])]
    ELSE LET matches(cs) == cs.category = lower(category[1])
             filtered == SelectSeq(CASE_STUDIES, matches)
         IN  [i \in 1..Len(filtered) |-> model_dump(filtered[i])]

\* list_case_studies comparing the requested category with "all" as written
list_case_studies_exact_all(category) ==
    IF ~Truthy(category) \/ category[1] = <<"a","l","l">>
    THEN [i \in 1..Len(CASE_STUDIES) |-> model_dump(CASE_STUDIES[i])]
    ELSE LET matches(cs) == lower(cs.category) = lower(category[1])
             filtered == SelectSeq(CASE_STUDIES, matches)
         IN  [i \in 1..Len(filtered) |-> model_dump(filtered[i])]

list_case_studies(category) ==
    IF ~Truthy(category) \/ lower(category[1]) = <<"a","l","l">>
    THEN [i \in 1..Len(CASE_STUDIES) |-> model_dump(CASE_STUDIES[i])]
    ELSE LET matches(cs) == lower(cs.category) = lower(category[1])
             filtered == SelectSeq(CASE_STUDIES, matches)
         IN  [i \in 1..Len(filtered) |-> model_dump(filtered[i])]

-----------------------------------------------------------------------------
(* POST /api/contact *)

Missing == [kind |-> "missing", str |-> <<>>]
Null == [kind |-> "null", str |-> <<>>]
Number == [kind |-> "number", str |-> <<>>]
JsonStr(s) == [kind |-> "str", str |-> s]

EmailAlphabet == {"a", "@", "."}

Count(s, c) == Cardinality({i \in 1..Len(s) : s[i] = c})

\* a dot-separated run of non-empty labels
DotAtom(s) ==
    /\ Len(s) > 0
    /\ s[1] # "." /\ s[Len(s)] # "."
    /\ \A i \in 1..(Len(s) - 1) : ~(s[i] = "." /\ s[i + 1] = ".")

\* EmailStr, on strings over EmailAlphabet: one "@", a dot-atom before it
\* and a dotted domain after it
IsEmail(s) ==
    /\ Count(s, "@") = 1
    /\ LET at == CHOOSE i \in 1..Len(s) : s[i] = "@"
           local == SubSeq(s, 1, at - 1)
           domain == SubSeq(s, at + 1, Len(s))
       IN  DotAtom(local) /\ DotAtom(domain) /\ Count(domain, ".") >= 1

\* ContactIn with email declared str
ContactIn_email_str(payload) ==
    /\ payload.name.kind = "str"
    /\ payload.email.kind = "str"
    /\ payload.subject.kind = "str"
    /\ payload.message.kind = "str"
    /\ payload.source.kind \in {"missing", "null", "str"}

\* the request body parsed as ContactIn: required str fields, EmailStr,
\* Optional[str] source
ContactIn(payload) ==
    /\ payload.name.kind = "str"
    /\ payload.email.kind = "str" /\ IsEmail(payload.email.str)
    /\ payload.subject.kind = "str"
    /\ payload.message.kind = "str"
    /\ payload.source.kind \in {"missing", "null", "str"}

\* payload.model_dump(): an absent source is None
payload_model_dump(payload) ==
    [name |-> payload.name.str, email |-> payload.email.str,
     subject |-> payload.subject.str, message |-> payload.message.str,
     source |-> IF payload.source.kind = "str" THEN Some(payload.source.str) ELSE None]

\* str(e)
str(e) == e.msg

\* one call on the collaborator: what was called, whether it raised (exc, msg)
\* and what it returned (value)
Call(fn, arg, outcome) ==
    [fn |-> fn, arg |-> arg, raised |-> outcome.raised, msg |-> outcome.msg,
     exc |-> IF outcome.raised THEN "Exception" ELSE "", value |-> outcome.id]

\* schemas.ContactMessage(**fields): the document, or a validation error
ContactMessage(fields, outcome) ==
    [raised |-> outcome.raised, msg |-> outcome.msg, value |-> fields]

\* database.create_document(collection, doc): the new identifier, or an error
create_document(collection, doc, outcome) ==
    [raised |-> outcome.raised, msg |-> outcome.msg, value |-> outcome.id]

HTTPException(status_code, detail) ==
    [status |-> status_code, body |-> [status |-> "error", id |-> <<>>, detail |-> detail]]

\* submit_contact inserting a second time when the first insert raises
submit_contact_retry(payload, schema, create) ==
    LET doc == ContactMessage(payload_model_dump(payload), schema)
        inserted == create_document("contactmessage", doc.value, create)
        c1 == Call("ContactMessage", "", schema)
        c2 == Call("create_document", "contactmessage", create)
    IN  IF doc.raised
        THEN [response |-> HTTPException(500, str(doc)), calls |-> <<c1>>]
        ELSE IF inserted.raised
        THEN [response |-> HTTPException(500, str(inserted)), calls |-> <<c1, c2, c2>>]
        ELSE [response |-> [status |-> 200,
                            body |-> [status |-> "ok", id |-> inserted.value,
                                      detail |-> <<>>]],
              calls |-> <<c1, c2>>]

\* submit_contact answering a fixed text in place of str(e)
submit_contact_generic_detail(payload, schema, create) ==
    LET doc == ContactMessage(payload_model_dump(payload), schema)
        inserted == create_document("contactmessage", doc.value, create)
        c1 == Call("ContactMessage", "", schema)
        c2 == Call("create_document", "contactmessage", create)
        generic == <<"e","r","r","o","r">>
    IN  IF doc.raised
        THEN [response |-> HTTPException(500, generic), calls |-> <<c1>>]
        ELSE IF inserted.raised
        THEN [response |-> HTTPException(500, generic), calls |-> <<c1, c2>>]
        ELSE [response |-> [status |-> 200,
                            body |-> [status |-> "ok", id |-> inserted.value,
                                      detail |-> <<>>]],
              calls |-> <<c1, c2>>]

submit_contact(payload, schema, create) ==
    LET doc == ContactMessage(payload_model_dump(payload), schema)
        inserted == create_document("contactmessage", doc.value, create)
        c1 == Call("ContactMessage", "", schema)
        c2 == Call("create_document", "contactmessage", create)
    IN  IF doc.raised
        THEN [response |-> HTTPException(500, str(doc)), calls |-> <<c1>>]
        ELSE IF inserted.raised
        THEN [response |-> HTTPException(500, str(inserted)), calls |-> <<c1, c2>>]
        ELSE [response |-> [status |-> 200,
                            body |-> [status |-> "ok", id |-> inserted.value,
                                      detail |-> <<>>]],
              calls |-> <<c1, c2>>]

\* what FastAPI answers when the body does not parse as ContactIn
RequestValidationError ==
    [status |-> 422, body |-> [status |-> "error", id |-> <<>>, detail |-> <<>>]]

-----------------------------------------------------------------------------
(* GET /test *)

PyNone == "None"

\* os.getenv(name)
getenv(name) == environ[name]

Status(text, detail) == [text |-> text, detail |-> detail]

\* What the database module shows during one call of test_database:
\*   imp       "ok", or the exception `from database import db` raises
\*   msg       the message of the exception raised (import or enumeration)
\*   dbIsNone  db is None
\*   hasName   hasattr(db, 'name'), and name, db.name
\*   listRaises, names   db.list_collection_names() raises, or its result

\* the response test_database starts from
test_database_response ==
    [backend |-> "Running",
     database |-> Status("Not Available", <<>>),
     database_url |-> PyNone,
     database_name |-> PyNone,
     connection_status |-> "Not Connected",
     collections |-> <<>>]

\* the probe showing every collection name
test_database_probe_unsliced(db) ==
    LET r0 == test_database_response
    IN  IF db.imp = "ImportError"
        THEN [r0 EXCEPT !.database =
                  Status("Database module not found (run enable-database first)", <<>>)]
        ELSE IF db.imp = "Exception"
        THEN [r0 EXCEPT !.database = Status("Error: ", Take(db.msg, ErrorTextLen))]
        ELSE IF db.dbIsNone
        THEN [r0 EXCEPT !.database = Status("Available but not initialized", <<>>)]
        ELSE LET r == [r0 EXCEPT !.database = Status("Available", <<>>),
                                 !.database_url = "Configured",
                                 !.database_name =
                                     IF db.hasName THEN db.name ELSE "Connected",
                                 !.connection_status = "Connected"]
             IN  IF db.listRaises
                 THEN [r EXCEPT !.database =
                           Status("Connected but Error: ", Take(db.msg, ErrorTextLen))]
                 ELSE [r EXCEPT !.collections = db.names,
                                !.database = Status("Connected & Working", <<>>)]

\* the try block of test_database: import db, then probe it
test_database_probe(db) ==
    LET r0 == test_database_response
    IN  IF db.imp = "ImportError"
        THEN [r0 EXCEPT !.database =
                  Status("Database module not found (run enable-database first)", <<>>)]
        ELSE IF db.imp = "Exception"
        THEN [r0 EXCEPT !.database = Status("Error: ", Take(db.msg, ErrorTextLen))]
        ELSE IF db.dbIsNone
        THEN [r0 EXCEPT !.database = Status("Available but not initialized", <<>>)]
        ELSE LET r == [r0 EXCEPT !.database = Status("Available", <<>>),
                                 !.database_url = "Configured",
                                 !.database_name =
                                     IF db.hasName THEN db.name ELSE "Connected",
                                 !.connection_status = "Connected"]
             IN  IF db.listRaises
                 THEN [r EXCEPT !.database =
                           Status("Connected but Error: ", Take(db.msg, ErrorTextLen))]
                 ELSE [r EXCEPT !.collections = Take(db.names, CollectionsShown),
                                !.database = Status("Connected & Working", <<>>)]

\* the environment check that ends test_database
test_database_env(r) ==
    [r EXCEPT
       !.database_url = IF Truthy(getenv("DATABASE_URL")) THEN "Set" ELSE "Not Set",
       !.database_name = IF Truthy(getenv("DATABASE_NAME")) THEN "Set" ELSE "Not Set"]

\* test_database without its except clauses
test_database_uncaught(db) ==
    IF db.imp # "ok" \/ (~db.dbIsNone /\ db.listRaises)
    THEN [status |-> 500, body |-> [detail |-> db.msg]]
    ELSE [status |-> 200, body |-> test_database_env(test_database_probe(db))]

\* test_database without its environment check
test_database_no_env_check(db) ==
    [status |-> 200, body |-> test_database_probe(db)]

test_database(db) ==
    [status |-> 200, body |-> test_database_env(test_database_probe(db))]

\* the calls test_database makes on the collaborator
test_database_calls(db) ==
    LET imp == [fn |-> "import db", arg |-> "", raised |-> db.imp # "ok",
                msg |-> IF db.imp = "ok" THEN <<>> ELSE db.msg,
                exc |-> IF db.imp = "ok" THEN "" ELSE db.imp,
                value |-> IF db.imp = "ok" /\ ~db.dbIsNone THEN Some("db") ELSE None]
        lst == [fn |-> "list_collection_names", arg |-> "", raised |-> db.listRaises,
                msg |-> IF db.listRaises THEN db.msg ELSE <<>>,
                exc |-> IF db.listRaises THEN "Exception" ELSE "",
                value |-> IF db.listRaises THEN <<>> ELSE db.names]
    IN  IF db.imp # "ok" \/ db.dbIsNone THEN <<imp>> ELSE <<imp, lst>>

-----------------------------------------------------------------------------
(* Inputs *)

\* every way of writing s in upper and lower case
CaseVariants(s) ==
    { [i \in 1..Len(s) |-> IF i \in U THEN UpperChar(s[i]) ELSE LowerChar(s[i])] :
        U \in SUBSET (1..Len(s)) }

OtherCategories ==
    { <<>>, <<"a","l">>, <<"a","l","l","l">>, <<" ","a","l","l">>, <<"a","l","l"," ">>,
      <<"l","e","a","d">>, <<"l","e","a","d","g","e","n">>, <<"x">>,
      ECommerce, lower(ECommerce), upper(ECommerce),
      LocalBusiness, lower(LocalBusiness), upper(LocalBusiness) }

CategoryInputs ==
    {None} \cup { Some(c) : c \in CaseVariants(All) \cup CaseVariants(LeadGen)
                                  \cup CaseVariants(ECommerce) \cup OtherCategories }

RECURSIVE StringsOfLen(_, _)
StringsOfLen(alphabet, n) ==
    IF n = 0 THEN {<<>>}
    ELSE { Append(s, c) : s \in StringsOfLen(alphabet, n - 1), c \in alphabet }

EmailInputs == UNION { StringsOfLen(EmailAlphabet, n) : n \in 0..MaxEmailLen }

GoodEmail == <<"a","@","a",".","a">>
BadEmail == <<"a","@","a">>
Text == <<"h","i">>

GoodPayload ==
    [name |-> JsonStr(Text), email |-> JsonStr(GoodEmail), subject |-> JsonStr(Text),
     message |-> JsonStr(Text), source |-> Missing]

FieldInputs == {Missing, Null, Number, JsonStr(<<>>), JsonStr(Text)}

\* request bodies: every email with the other fields well formed, and every
\* value of every field around a good and a bad email
PayloadInputs ==
    { [GoodPayload EXCEPT !.email = JsonStr(e)] : e \in EmailInputs }
    \cup { [GoodPayload EXCEPT ![f] = v, !.email = IF f = "email" THEN v ELSE JsonStr(e)] :
             f \in {"name", "email", "subject", "message", "source"},
             v \in FieldInputs, e \in {GoodEmail, BadEmail} }

Message(n) == [i \in 1..n |-> LowerLetters[((i - 1) % 26) + 1]]
Messages == { Message(n) : n \in 0..MaxMsgLen }

InsertedIds == { <<"6","5","f">>, <<"0">> }

Returns(id) == [raised |-> FALSE, msg |-> <<>>, id |-> id]
Raises(msg) == [raised |-> TRUE, msg |-> msg, id |-> <<>>]

SchemaOutcomes == {Returns(<<>>)} \cup { Raises(m) : m \in Messages }
CreateOutcomes == { Returns(id) : id \in InsertedIds } \cup { Raises(m) : m \in Messages }

Ascending(n) == [i \in 1..n |-> i]
Descending(n) == [i \in 1..n |-> n + 1 - i]
CollectionLists == UNION { {Ascending(n), Descending(n)} : n \in 0..MaxCollections }

DbDefault ==
    [imp |-> "ok", msg |-> <<>>, dbIsNone |-> FALSE, hasName |-> FALSE,
     name |-> PyNone, listRaises |-> FALSE, names |-> <<>>]

DbHandles == { [DbDefault EXCEPT !.hasName = TRUE, !.name = "portfolio"], DbDefault }

DatabaseStates ==
    { [DbDefault EXCEPT !.imp = "ImportError",
                        !.msg = <<"c","a","n","n","o","t"," ","i","m","p","o","r","t">>] }
    \cup { [DbDefault EXCEPT !.imp = "Exception", !.msg = m] : m \in Messages }
    \cup { [DbDefault EXCEPT !.dbIsNone = TRUE] }
    \cup { [h EXCEPT !.listRaises = TRUE, !.msg = m] : h \in DbHandles, m \in Messages }
    \cup { [h EXCEPT !.names = l] : h \in DbHandles, l \in CollectionLists }

EnvValues == { None, Some(<<>>), Some(<<"m","o","n","g","o">>) }

NoPayload == [name |-> Missing, email |-> Missing, subject |-> Missing,
              message |-> Missing, source |-> Missing]

Req(op, category, payload) == [op |-> op, category |-> category, payload |-> payload]

NoRequest == Req("none", None, NoPayload)
NoResponse == [status |-> 0, body |-> <<>>]

Requests ==
    { Req("read_root", None, NoPayload), Req("get_metrics", None, NoPayload),
      Req("test_database", None, NoPayload) }
    \cup { Req("list_case_studies", c, NoPayload) : c \in CategoryInputs }
    \cup { Req("submit_contact", None, p) : p \in PayloadInputs }

-----------------------------------------------------------------------------
(* The service *)

Init ==
    /\ environ \in [{"DATABASE_URL", "DATABASE_NAME"} -> EnvValues]
    /\ CASE_STUDIES = CaseStudiesData
    /\ pc = "idle"
    /\ request = NoRequest
    /\ response = NoResponse
    /\ calls = <<>>
    /\ validated = 0
    /\ createCalls = 0

\* a request arrives
Receive ==
    /\ pc = "idle"
    /\ \E r \in Requests :
        /\ r.op = "submit_contact" => validated < MaxSubmits
        /\ request' = r
    /\ pc' = "received"
    /\ UNCHANGED <<environ, CASE_STUDIES, response, calls, validated, createCalls>>

ReadRoot ==
    /\ pc = "received" /\ request.op = "read_root"
    /\ response' = [status |-> 200, body |-> read_root]
    /\ pc' = "handled"
    /\ UNCHANGED <<environ, CASE_STUDIES, request, calls, validated, createCalls>>

GetMetrics ==
    /\ pc = "received" /\ request.op = "get_metrics"
    /\ response' = [status |-> 200, body |-> get_metrics]
    /\ pc' = "handled"
    /\ UNCHANGED <<environ, CASE_STUDIES, request, calls, validated, createCalls>>

\* list_case_studies keeping its answer in CASE_STUDIES
ListCaseStudies_in_place ==
    /\ pc = "received" /\ request.op = "list_case_studies"
    /\ response' = [status |-> 200, body |-> list_case_studies(request.category)]
    /\ CASE_STUDIES' = list_case_studies(request.category)
    /\ pc' = "handled"
    /\ UNCHANGED <<environ, request, calls, validated, createCalls>>

ListCaseStudies ==
    /\ pc = "received" /\ request.op = "list_case_studies"
    /\ response' = [status |-> 200, body |-> list_case_studies(request.category)]
    /\ pc' = "handled"
    /\ UNCHANGED <<environ, CASE_STUDIES, request, calls, validated, createCalls>>

CreateCallsIn(cs) == Cardinality({i \in 1..Len(cs) : cs[i].fn = "create_document"})

\* the body is parsed as ContactIn before submit_contact is entered
SubmitContact ==
    /\ pc = "received" /\ request.op = "submit_contact"
    /\ IF ContactIn(request.payload)
       THEN \E schema \in SchemaOutcomes, create \in CreateOutcomes :
              LET out == submit_contact(request.payload, schema, create)
              IN  /\ response' = out.response
                  /\ calls' = out.calls
                  /\ createCalls' = createCalls + CreateCallsIn(out.calls)
                  /\ validated' = validated + 1
       ELSE /\ response' = RequestValidationError
            /\ UNCHANGED <<calls, createCalls, validated>>
    /\ pc' = "handled"
    /\ UNCHANGED <<environ, CASE_STUDIES, request>>

TestDatabase ==
    /\ pc = "received" /\ request.op = "test_database"
    /\ \E db \in DatabaseStates :
        /\ response' = test_database(db)
        /\ calls' = test_database_calls(db)
    /\ pc' = "handled"
    /\ UNCHANGED <<environ, CASE_STUDIES, request, validated, createCalls>>

\* the response is sent and the request is over
Reply ==
    /\ pc = "handled"
    /\ pc' = "idle"
    /\ request' = NoRequest
    /\ response' = NoResponse
    /\ calls' = <<>>
    /\ UNCHANGED <<environ, CASE_STUDIES, validated, createCalls>>

Next ==
    \/ Receive
    \/ ReadRoot
    \/ GetMetrics
    \/ ListCaseStudies
    \/ SubmitContact
    \/ TestDatabase
    \/ Reply

Spec == Init /\ [][Next]_vars

-----------------------------------------------------------------------------
(* Properties of GET /api/case-studies *)

Handled(op) == pc = "handled" /\ request.op = op

\* a and b are the same string up to the case of their letters
SameIgnoringCase(a, b) ==
    /\ Len(a) = Len(b)
    /\ \A i \in 1..Len(a) : UpperChar(a[i]) = UpperChar(b[i])

\* the case studies of the category, in the order they are defined in
Titles(body) == [i \in 1..Len(body) |-> body[i].title]

IsSubsetOfCategory(body, category) ==
    LET idx == { i \in 1..Len(CaseStudiesData) :
                   SameIgnoringCase(CaseStudiesData[i].category, category) }
        nth(k) == CHOOSE i \in idx : Cardinality({ j \in idx : j < i }) = k - 1
    IN  /\ Len(body) = Cardinality(idx)
        /\ \A k \in 1..Len(body) : body[k] = CaseStudiesData[nth(k)]

FilteredAnswer ==
    /\ response.status = 200
    /\ IsSubsetOfCategory(response.body, request.category[1])
    /\ lower(request.category[1]) = lower(LeadGen)
         => Titles(response.body) = <<"Dobrosvit", "Fertility Therapy">>

\* C1, as claimed: for every category that is present and is not a case
\* variant of "all", list_case_studies answers exactly the case studies of
\* that category (compared ignoring case), in their defined order, and an
\* empty list without an error when none matches.
C1_AsClaimed ==
    ( /\ Handled("list_case_studies")
      /\ request.category # None
      /\ ~SameIgnoringCase(request.category[1], All) )
    => FilteredAnswer

\* C1, amended: the same for every category that is present, is not the
\* empty string and is not a case variant of "all".
C1_FilterByCategory ==
    ( /\ Handled("list_case_studies")
      /\ request.category # None
      /\ request.category[1] # <<>>
      /\ ~SameIgnoringCase(request.category[1], All) )
    => FilteredAnswer

C1_Witness ==
    /\ Handled("list_case_studies")
    /\ request.category = Some(<<"l","e","a","d"," ","g","e","n">>)
    /\ Len(response.body) = 2

\* C2: when category is absent, "all" or any case variant of "all",
\* list_case_studies answers all three case studies in their defined order.
C2_AllCaseStudies ==
    ( /\ Handled("list_case_studies")
      /\ \/ request.category = None
         \/ SameIgnoringCase(request.category[1], All) )
    => /\ response.status = 200
       /\ Len(response.body) = 3
       /\ \A i \in 1..3 : response.body[i] = CaseStudiesData[i]
       /\ Titles(response.body) = <<"Soorpriz", "Dobrosvit", "Fertility Therapy">>

C2_Witness ==
    /\ Handled("list_case_studies")
    /\ request.category = Some(<<"a","L","l">>)
    /\ Len(response.body) = 3

-----------------------------------------------------------------------------
(* Properties of POST /api/contact *)

RequiredFields == {"name", "email", "subject", "message"}

\* a required field is missing or is no string, the email is not an email
\* address, or the source is no string
Malformed(payload) ==
    \/ \E f \in RequiredFields : payload[f].kind \in {"missing", "null", "number"}
    \/ payload.email.kind = "str" /\ ~IsEmail(payload.email.str)
    \/ payload.source.kind = "number"

\* every required field is a string, the email is an email address and the
\* source, when given, is a string or null
WellFormed(payload) ==
    /\ \A f \in RequiredFields : payload[f].kind = "str"
    /\ IsEmail(payload.email.str)
    /\ payload.source.kind # "number"

Raised == { i \in 1..Len(calls) : calls[i].raised }

CreateCalls == { i \in 1..Len(calls) : calls[i].fn = "create_document" }

\* C3: a malformed contact payload (a required field missing, or an email
\* that is not an email address) is answered with a client error and the
\* collaborator is never called: no create_document call is made for it.
C3_MalformedNeverPersisted ==
    ( Handled("submit_contact") /\ Malformed(request.payload) )
    => /\ response.status >= 400 /\ response.status < 500
       /\ response.body.status # "ok"
       /\ calls = <<>>

C3_Witness ==
    /\ Handled("submit_contact")
    /\ request.payload.email = JsonStr(<<"a","@","a">>)
    /\ request.payload.name.kind = "str"
    /\ response.status = 422
    /\ createCalls > 0

\* C4, as claimed: a well-formed contact payload produces exactly one
\* create_document call, on the collection "contactmessage", and is
\* answered {status: "ok", id} with a non-empty id.
OneWriteAndOk ==
    /\ Cardinality(CreateCalls) = 1
    /\ \A i \in CreateCalls : calls[i].arg = "contactmessage"
    /\ response.status = 200
    /\ response.body.status = "ok"
    /\ response.body.id # <<>>
    /\ \A i \in CreateCalls : response.body.id = calls[i].value

C4_AsClaimed ==
    ( Handled("submit_contact") /\ WellFormed(request.payload) ) => OneWriteAndOk

\* C4, amended: a well-formed contact payload produces at most one
\* create_document call; when neither ContactMessage nor create_document
\* raises it produces exactly one, on the collection "contactmessage", and
\* is answered {status: "ok", id} with the non-empty id create_document
\* returned.
C4_OneWritePerSuccess ==
    ( Handled("submit_contact") /\ WellFormed(request.payload) )
    => /\ Cardinality(CreateCalls) <= 1
       /\ Raised = {} => OneWriteAndOk

C4_Witness ==
    /\ Handled("submit_contact")
    /\ WellFormed(request.payload)
    /\ Raised = {}
    /\ response.body.status = "ok"
    /\ createCalls = 2

\* C5: when the collaborator raises during submit_contact, the answer is a
\* server error (500) carrying the message of the error raised, never
\* status "ok", and no second insert is attempted: at most one
\* create_document call per request.
C5_CollaboratorErrorIs500 ==
    ( Handled("submit_contact") /\ Raised # {} )
    => /\ response.status = 500
       /\ response.body.status # "ok"
       /\ \A i \in Raised : response.body.detail = calls[i].msg
       /\ Cardinality(CreateCalls) <= 1

C5_Witness ==
    /\ Handled("submit_contact")
    /\ Len(calls) = 2 /\ calls[2].fn = "create_document" /\ calls[2].raised
    /\ Len(calls[2].msg) = MaxMsgLen
    /\ response.status = 500

-----------------------------------------------------------------------------
(* Properties of GET /test *)

DatabaseStatuses ==
    { "Database module not found (run enable-database first)", "Error: ",
      "Available but not initialized", "Connected but Error: ", "Connected & Working" }

\* C6: test_database never fails outward: with the collaborator absent,
\* present with a null handle, present and live, or erroring on
\* enumeration, the answer is a success whose database field is one of the
\* status texts.
C6_DiagnosticsNeverFails ==
    Handled("test_database")
    => /\ response.status = 200
       /\ response.body.backend = "Running"
       /\ response.body.database.text \in DatabaseStatuses

C6_Witness ==
    /\ Handled("test_database")
    /\ calls[1].raised /\ calls[1].exc = "ImportError"
    /\ response.status = 200

EnvReport(name) == IF environ[name] # None THEN "Set" ELSE "Not Set"

\* C7, as claimed: database_url and database_name report only whether
\* DATABASE_URL and DATABASE_NAME are present in the environment.
C7_AsClaimed ==
    Handled("test_database")
    => /\ response.body.database_url = EnvReport("DATABASE_URL")
       /\ response.body.database_name = EnvReport("DATABASE_NAME")

EnvReportNonEmpty(name) ==
    IF environ[name] # None /\ environ[name][1] # <<>> THEN "Set" ELSE "Not Set"

\* C7, amended: database_url and database_name report only whether
\* DATABASE_URL and DATABASE_NAME are present in the environment with a
\* non-empty value ("Set") or not ("Not Set"), whatever the collaborator's
\* availability, handle and enumeration outcome.
C7_EnvFlagsOnly ==
    Handled("test_database")
    => /\ response.body.database_url = EnvReportNonEmpty("DATABASE_URL")
       /\ response.body.database_name = EnvReportNonEmpty("DATABASE_NAME")

C7_Witness ==
    /\ Handled("test_database")
    /\ Len(calls) = 2 /\ ~calls[2].raised
    /\ environ["DATABASE_URL"] = None
    /\ environ["DATABASE_NAME"] # None /\ environ["DATABASE_NAME"][1] # <<>>
    /\ response.body.database_url = "Not Set"
    /\ response.body.database_name = "Set"

\* C9: the database status classifies the collaborator: an import failure
\* reports "not found"; a null handle reports "not initialized" with
\* connection_status "Not Connected" and no collections; a handle sets
\* connection_status "Connected" and then reports success with the first
\* at most 10 enumerated names in order, or, when the enumeration raises,
\* a partial failure with no collections.
C9_StatusClassification ==
    Handled("test_database")
    => LET imp == calls[1]
           body == response.body
       IN  /\ (imp.raised /\ imp.exc = "ImportError")
                => body.database.text =
                     "Database module not found (run enable-database first)"
           /\ (~imp.raised /\ imp.value = None)
                => /\ body.database.text = "Available but not initialized"
                   /\ body.connection_status = "Not Connected"
                   /\ body.collections = <<>>
           /\ (~imp.raised /\ imp.value # None)
                => /\ body.connection_status = "Connected"
                   /\ Len(calls) = 2
                   /\ calls[2].fn = "list_collection_names"
                   /\ IF calls[2].raised
                      THEN /\ body.database.text = "Connected but Error: "
                           /\ body.collections = <<>>
                      ELSE /\ body.database.text = "Connected & Working"
                           /\ Len(body.collections) <= 10
                           /\ Len(body.collections) <= Len(calls[2].value)
                           /\ \/ Len(body.collections) = 10
                              \/ Len(body.collections) = Len(calls[2].value)
                           /\ \A i \in 1..Len(body.collections) :
                                body.collections[i] = calls[2].value[i]

C9_Witness ==
    /\ Handled("test_database")
    /\ Len(calls) = 2 /\ ~calls[2].raised
    /\ Len(calls[2].value) = 12 /\ calls[2].value[1] = 12
    /\ Len(response.body.collections) = 10

-----------------------------------------------------------------------------
(* Properties of the service as a whole *)

====
